---- MODULE Spec2Model ----
(***************************************************************************)
(* Tendermint core of evrynet-node: the per-height round state machine     *)
(* (enterNewRound .. enterCommit), the message handlers (handlePropose,    *)
(* handlePrevote, handlePrecommit), the timeout dispatcher and the message *)
(* authentication (Sign / GetAddressFromSignature).                        *)
(*                                                                         *)
(* Every replica in `correct` runs the code; the validators in `faulty`    *)
(* are the environment and may send any message their own key can sign.    *)
(***************************************************************************)
EXTENDS Integers, FiniteSets, Sequences, TLC

VARIABLES core, faulty, cgo, backend

vars == <<core, faulty, cgo, backend>>

----------------------------------------------------------------------------
(* Bounds of the model *)

\* most payloads a backend posts to itself
MaxPosts == 2
\* most blocks delivered on one commit channel
MaxCommits == 2
\* largest epoch of a StakingValidator
MaxEpoch == 2
\* highest block number GetValSet is asked for
MaxNumber == 2

\* highest round carried by a message of the environment
MaxRound == 1
\* most votes of the environment one replica admits
MaxVotes == 6

----------------------------------------------------------------------------
(* Data model *)

\* the ordered validator set of the height (n = 4, f = 1, Q = 3)
ValList == <<"v1", "v2", "v3", "v4">>

Validators == {ValList[k] : k \in 1..Len(ValList)}

Size == Len(ValList)

F == (Size - 1) \div 3

Q == 2 * F + 1

\* the height the round state is at, and the height of a late message
\* an address that is not in the validator set
Outsider == "v5"

CurHeight == 1

OtherHeight == 2

Heights == {CurHeight, OtherHeight}

Rounds == 0..MaxRound

\* a block is identified with its hash; NilBlock is the nil *types.Block
NilBlock == "nilBlock"

Blocks == {"A", "B"}

\* the block a correct node assembles for the height
OwnBlock == "B"

emptyBlockHash == "0x0"

Hashes == Blocks \cup {emptyBlockHash}

BlockHash(b) == IF b = NilBlock THEN emptyBlockHash ELSE b

msgPropose == 0

msgPrevote == 1

msgPrecommit == 2

RoundStepNewHeight == 1

RoundStepNewRound == 2

RoundStepPropose == 3

RoundStepPrevote == 4

RoundStepPrevoteWait == 5

RoundStepPrecommit == 6

RoundStepPrecommitWait == 7

RoundStepCommit == 8

\* proposal_received = nil (a view never has round -1)
NilProposal == [block |-> NilBlock, round |-> -1, polRound |-> -1]

\* errors returned by the handlers
NoErr == "nil"

ErrInvalidProposalPOLRound == "invalid proposal POL round"

ErrInvalidProposalSignature == "invalid proposal signature"

ErrVoteInvalidValidatorAddress == "invalid validator address"

ErrEmptyBlockProposal == "empty block proposal"

ErrDecode == "rlp: decode error"

ErrRecover == "invalid message length, need 32 bytes"

ErrSignerMismatch == "signer differs from sender"

ErrEquivocation == "equivocation"

ErrUnknownCode == "unknown msg code"

----------------------------------------------------------------------------
(* Messages and their authentication *)

\* A message: code, the decoded payload (height, round, block or block hash,
\* POL round), the declared sender (Address) and the signature.  A signature
\* is the key that made it (signer) and the digest it was made over:
\* "keccak" is Keccak256(PayLoadWithoutSignature()), "raw" is the digest
\* ECDSA recovery derives from the payload itself when it is handed the
\* payload un-hashed.
Message(code, h, r, b, pol, addr, signer, over) ==
    [code |-> code, height |-> h, round |-> r, block |-> b, polRound |-> pol,
     address |-> addr, signer |-> signer, over |-> over]

\* backend.Sign: Keccak256 of the data, then ECDSA under the node's key
Sign(key) == [signer |-> key, over |-> "keccak"]

\* crypto.SigToPub(hash, sig): the key of sig when hash is the digest that
\* was signed.  A hash that is not 32 bytes long is an error in the cgo build
\* (secp256k1.RecoverPubkey) and is cut to its first 32 bytes in the build
\* without cgo (btcec.RecoverCompact), which recovers some other key unless
\* the signature was made over exactly that digest.
GarbageAddress == "0xgarbage"

SigToPub(digest, m, isCgo) ==
    IF digest = "raw" /\ isCgo THEN ErrRecover
    ELSE IF m.over = digest THEN m.signer
    ELSE GarbageAddress

\* message.GetAddressFromSignature: recovery over the payload, not its hash
\* the declared sender taken for the signer
GetAddressFromSignatureDeclared(m, isCgo) == m.address

GetAddressFromSignature(m, isCgo) == SigToPub("raw", m, isCgo)

----------------------------------------------------------------------------
(* Validator set *)

RECURSIVE IndexFrom(_, _)
IndexFrom(addr, k) ==
    IF k > Size THEN -1
    ELSE IF ValList[k] = addr THEN k - 1
    ELSE IndexFrom(addr, k + 1)

\* valSet.GetByAddress: the index of addr in the list, -1 when absent
GetByAddress(addr) == IndexFrom(addr, 1)

\* valSet.GetProposer: the proposer the set holds (c.proposer is its index)
GetProposer(c) == ValList[c.proposer + 1]

IsProposer(c, addr) == GetProposer(c) = addr

\* valSet.CalcProposer(prev, round): index_of(prev) + round, mod |set|
CalcProposer(c, prev, round) ==
    [c EXCEPT !.proposer = (GetByAddress(prev) + round) % Size]

----------------------------------------------------------------------------
(* Vote sets: the votes of one kind, each [round, address, hash] *)

VotesAt(votes, r) == {v \in votes : v.round = r}

Majorities(votes, r) ==
    {h \in Hashes : Cardinality({v \in VotesAt(votes, r) : v.hash = h}) >= Q}

\* TwoThirdMajority: (hash, ok)
HasMajority(votes, r) == Majorities(votes, r) # {}

MajorityHash(votes, r) ==
    IF HasMajority(votes, r) THEN CHOOSE h \in Majorities(votes, r) : TRUE
    ELSE emptyBlockHash

HasTwoThirdAny(votes, r) == Cardinality(VotesAt(votes, r)) >= Q

----------------------------------------------------------------------------
(* Round State *)

\* the core of the node with address addr after construction; stored is the
\* history of the proposals handlePropose stored, in order, and checked the
\* timeout that passed the stale check of handleTimeout and waits for c.mu
NewCore(addr) ==
    [address |-> addr, height |-> CurHeight, round |-> 0,
     step |-> RoundStepNewHeight, proposalReceived |-> NilProposal,
     lockedRound |-> -1, lockedBlock |-> NilBlock,
     validRound |-> -1, validBlock |-> NilBlock, block |-> NilBlock,
     prevotes |-> {}, precommits |-> {}, proposer |-> 0,
     timeouts |-> {}, sent |-> {}, commits |-> {}, stored |-> <<>>,
     checked |-> {}]

UpdateRoundStep(c, round, step) == [c EXCEPT !.round = round, !.step = step]

SetValidRoundAndBlock(c, validRound, validBlock) ==
    [c EXCEPT !.validRound = validRound, !.validBlock = validBlock]

\* first wins; nil clears
SetProposalReceived(c, proposal) ==
    IF proposal # NilProposal /\ c.proposalReceived # NilProposal THEN c
    ELSE [c EXCEPT !.proposalReceived = proposal]

Unlock(c) == [c EXCEPT !.lockedRound = -1, !.lockedBlock = NilBlock]

SetBlock(c, b) == [c EXCEPT !.block = b]

\* the proposal and, when it names a POL round, the +2/3 prevotes of it
IsProposalComplete(c) ==
    /\ c.proposalReceived # NilProposal
    /\ \/ c.proposalReceived.polRound < 0
       \/ HasMajority(c.prevotes, c.proposalReceived.polRound)

TimeoutInfo(h, r, s) == [height |-> h, round |-> r, step |-> s]

\* timeout.ScheduleTimeout: arms a timer, which supersedes the one armed
\* before it
ScheduleTimeout(c, ti) == [c EXCEPT !.timeouts = {ti}]

\* backend.Broadcast of a message signed by backend.Sign: gossip and post
\* to self
Broadcast(c, code, h, r, b, pol) ==
    [c EXCEPT !.sent = @ \cup
        {Message(code, h, r, b, pol, c.address,
                 Sign(c.address).signer, Sign(c.address).over)}]

SendPropose(c, proposal) ==
    Broadcast(c, msgPropose, c.height, proposal.round, proposal.block,
              proposal.polRound)

\* SendVote(code, block, round): a nil block is voted as emptyBlockHash
SendVote(c, code, b, round) ==
    Broadcast(c, code, c.height, round, BlockHash(b), -1)

----------------------------------------------------------------------------
(* State machine: the enterX transitions *)

\* defaultDoPrevote taking the received proposal before the lock, and nil
\* for a locked replica whose lock is the proposal
defaultDoPrevoteProposalFirst(c, round) ==
    IF c.proposalReceived = NilProposal
    THEN SendVote(c, msgPrevote, NilBlock, round)
    ELSE IF c.lockedRound # -1 /\ c.lockedBlock = c.proposalReceived.block
         THEN SendVote(c, msgPrevote, NilBlock, round)
    ELSE SendVote(c, msgPrevote, c.proposalReceived.block, round)

defaultDoPrevote(c, round) ==
    IF c.lockedRound # -1 THEN SendVote(c, msgPrevote, c.lockedBlock, round)
    ELSE IF c.proposalReceived = NilProposal
         THEN SendVote(c, msgPrevote, NilBlock, round)
    ELSE SendVote(c, msgPrevote, c.proposalReceived.block, round)

\* enterPrevote that prevotes and leaves the round and step as they are
enterPrevoteKeepStep(c, blockNumber, round) ==
    IF \/ c.height # blockNumber
       \/ round < c.round
       \/ (c.round = round /\ c.step >= RoundStepPrevote)
    THEN c
    ELSE defaultDoPrevote(c, round)

enterPrevote(c, blockNumber, round) ==
    IF \/ c.height # blockNumber
       \/ round < c.round
       \/ (c.round = round /\ c.step >= RoundStepPrevote)
    THEN c
    ELSE UpdateRoundStep(defaultDoPrevote(c, round), round, RoundStepPrevote)

\* enterPrevoteWait without the guard on the step of the current round
enterPrevoteWaitAnyStep(c, blockNumber, round) ==
    IF \/ c.height # blockNumber
       \/ round < c.round
    THEN c
    ELSE UpdateRoundStep(
            ScheduleTimeout(c, TimeoutInfo(blockNumber, round,
                                           RoundStepPrevoteWait)),
            round, RoundStepPrevoteWait)

\* no return follows the two log lines about missing prevotes
\* enterPrevoteWait arming its timer with the step it leaves
enterPrevoteWaitStepPrevote(c, blockNumber, round) ==
    IF \/ c.height # blockNumber
       \/ round < c.round
       \/ (c.round = round /\ RoundStepPrevoteWait <= c.step)
    THEN c
    ELSE UpdateRoundStep(
            ScheduleTimeout(c, TimeoutInfo(blockNumber, round,
                                           RoundStepPrevote)),
            round, RoundStepPrevoteWait)

enterPrevoteWait(c, blockNumber, round) ==
    IF \/ c.height # blockNumber
       \/ round < c.round
       \/ (c.round = round /\ RoundStepPrevoteWait <= c.step)
    THEN c
    ELSE UpdateRoundStep(
            ScheduleTimeout(c, TimeoutInfo(blockNumber, round,
                                           RoundStepPrevoteWait)),
            round, RoundStepPrevoteWait)

\* enterPrecommit locking the round and no block
enterPrecommitLockRound(c, blockNumber, round) ==
    [c EXCEPT !.lockedRound = round]

\* "TODO: implement this"
enterPrecommit(c, blockNumber, round) == c

defaultDecideProposal(c, round) ==
    IF c.validRound # -1
    THEN [block |-> c.validBlock, round |-> round, polRound |-> c.validRound]
    ELSE [block |-> c.block, round |-> round, polRound |-> -1]

enterPropose(c, blockNumber, round) ==
    IF \/ c.height # blockNumber
       \/ c.round > round
       \/ (c.round = round /\ c.step >= RoundStepPropose)
    THEN c
    ELSE LET sRound == c.round
             c1 == ScheduleTimeout(c, TimeoutInfo(blockNumber, round,
                                                  RoundStepPropose))
             c2 == IF GetByAddress(c1.address) = -1 THEN c1
                   ELSE IF IsProposer(c1, c1.address)
                        THEN SendPropose(c1, defaultDecideProposal(c1, round))
                   ELSE c1
             c3 == UpdateRoundStep(c2, round, RoundStepPropose)
         IN  IF IsProposalComplete(c3) THEN enterPrevote(c3, blockNumber, sRound)
             ELSE c3

\* enterNewRound without the guard on the step of the current round
enterNewRoundAnyStep(c, blockNumber, round) ==
    IF \/ c.height # blockNumber
       \/ round < c.round
    THEN c
    ELSE LET c1 == IF c.round < round
                   THEN CalcProposer(c, GetProposer(c), round)
                   ELSE c
             c2 == UpdateRoundStep(c1, round, RoundStepNewRound)
             c3 == IF round = 0 THEN SetValidRoundAndBlock(c2, -1, NilBlock)
                   ELSE c2
         IN  enterPropose(c3, blockNumber, round)

enterNewRound(c, blockNumber, round) ==
    IF \/ c.height # blockNumber
       \/ round < c.round
       \/ (c.round = round /\ c.step # RoundStepNewHeight)
    THEN c
    ELSE LET c1 == IF c.round < round
                   THEN CalcProposer(c, GetProposer(c), round)
                   ELSE c
             c2 == UpdateRoundStep(c1, round, RoundStepNewRound)
             c3 == IF round = 0 THEN SetValidRoundAndBlock(c2, -1, NilBlock)
                   ELSE c2
         IN  enterPropose(c3, blockNumber, round)

\* precommits[r] has +2/3-any and no +2/3 on a block: arm and wait
enterPrecommitWait(c, blockNumber, round) ==
    IF \/ c.height # blockNumber
       \/ round < c.round
       \/ (c.round = round /\ RoundStepPrecommitWait <= c.step)
       \/ ~HasTwoThirdAny(c.precommits, round)
       \/ (HasMajority(c.precommits, round)
             /\ MajorityHash(c.precommits, round) # emptyBlockHash)
    THEN c
    ELSE UpdateRoundStep(
            ScheduleTimeout(c, TimeoutInfo(blockNumber, round,
                                           RoundStepPrecommitWait)),
            round, RoundStepPrecommitWait)

\* precommits[r] has +2/3 on a block: hand it to backend.Commit
enterCommit(c, blockNumber, round) ==
    IF \/ c.height # blockNumber
       \/ round < c.round
       \/ (c.round = round /\ RoundStepCommit <= c.step)
       \/ ~HasMajority(c.precommits, round)
       \/ MajorityHash(c.precommits, round) = emptyBlockHash
    THEN c
    ELSE UpdateRoundStep(
            [c EXCEPT !.commits = @ \cup
                {[round |-> round, hash |-> MajorityHash(c.precommits, round)]}],
            round, RoundStepCommit)

startRoundZero(c) == enterNewRound(c, c.height, 0)

----------------------------------------------------------------------------
(* Message handlers: each returns the core and the error *)

Ret(c, err) == [c |-> c, err |-> err]

\* verifyProposal without the comparison of the signer with the proposer
verifyProposalAnySigner(c, proposal, m, isCgo) ==
    IF /\ proposal.polRound < -1
       /\ proposal.polRound >= 0
       /\ proposal.polRound >= proposal.round
    THEN ErrInvalidProposalPOLRound
    ELSE LET signer == GetAddressFromSignature(m, isCgo)
         IN  IF signer = ErrRecover THEN ErrRecover
             ELSE IF \/ proposal.block = NilBlock
                     \/ BlockHash(proposal.block) = emptyBlockHash
                  THEN ErrEmptyBlockProposal
             ELSE NoErr

verifyProposal(c, proposal, m, isCgo) ==
    IF /\ proposal.polRound < -1
       /\ proposal.polRound >= 0
       /\ proposal.polRound >= proposal.round
    THEN ErrInvalidProposalPOLRound
    ELSE LET signer == GetAddressFromSignature(m, isCgo)
         IN  IF signer = ErrRecover THEN ErrRecover
             ELSE IF GetProposer(c) # signer THEN ErrInvalidProposalSignature
             ELSE IF \/ proposal.block = NilBlock
                     \/ BlockHash(proposal.block) = emptyBlockHash
                  THEN ErrEmptyBlockProposal
             ELSE NoErr

\* handlePropose without the comparison of the rounds
handleProposeAnyRound(c, m, isCgo) ==
    IF m.block = NilBlock THEN Ret(c, ErrDecode)
    ELSE IF c.proposalReceived # NilProposal THEN Ret(c, NoErr)
    ELSE IF m.height # c.height THEN Ret(c, NoErr)
    ELSE LET proposal == [block |-> m.block, round |-> m.round,
                          polRound |-> m.polRound]
             err == verifyProposal(c, proposal, m, isCgo)
         IN  IF err # NoErr THEN Ret(c, err)
             ELSE Ret([SetProposalReceived(c, proposal)
                          EXCEPT !.stored = Append(@, proposal)], NoErr)

\* a payload without a block does not decode
handlePropose(c, m, isCgo) ==
    IF m.block = NilBlock THEN Ret(c, ErrDecode)
    ELSE IF c.proposalReceived # NilProposal THEN Ret(c, NoErr)
    ELSE IF m.height # c.height \/ m.round # c.round THEN Ret(c, NoErr)
    ELSE LET proposal == [block |-> m.block, round |-> m.round,
                          polRound |-> m.polRound]
             err == verifyProposal(c, proposal, m, isCgo)
         IN  IF err # NoErr THEN Ret(c, err)
             ELSE Ret([SetProposalReceived(c, proposal)
                          EXCEPT !.stored = Append(@, proposal)], NoErr)

\* Admit(vote, sender) of a vote set: the recovered signer is the declared
\* sender, the sender is a validator, and the first vote of a sender wins
addVote(votes, m, isCgo) ==
    LET signer == GetAddressFromSignature(m, isCgo)
        old == {v \in votes : v.round = m.round /\ v.address = m.address}
        no(err) == [votes |-> votes, added |-> FALSE, err |-> err]
    IN  IF signer = ErrRecover THEN no(ErrRecover)
        ELSE IF signer # m.address THEN no(ErrSignerMismatch)
        ELSE IF GetByAddress(m.address) = -1
             THEN no(ErrVoteInvalidValidatorAddress)
        ELSE IF \E v \in old : v.hash # m.block THEN no(ErrEquivocation)
        ELSE IF old # {} THEN no(NoErr)
        ELSE [votes |-> votes \cup {[round |-> m.round, address |-> m.address,
                                     hash |-> m.block]},
              added |-> TRUE, err |-> NoErr]

\* the part of handlePrevote that follows the admission of the vote
\* prevoteAdded recording the round after the round of the prevotes
prevoteAddedNextRound(c, m) ==
    LET hasMaj == HasMajority(c.prevotes, m.round)
        blockHash == MajorityHash(c.prevotes, m.round)
        c1 == IF /\ hasMaj
                 /\ c.lockedRound # -1
                 /\ c.lockedRound < m.round
                 /\ m.round <= c.round
                 /\ BlockHash(c.lockedBlock) # blockHash
              THEN Unlock(c)
              ELSE c
        c2 == IF /\ hasMaj
                 /\ blockHash # emptyBlockHash
                 /\ c1.validRound < m.round
                 /\ m.round = c1.round
              THEN IF /\ c1.proposalReceived # NilProposal
                      /\ BlockHash(c1.proposalReceived.block) = blockHash
                   THEN SetValidRoundAndBlock(c1, m.round + 1,
                                              c1.proposalReceived.block)
                   ELSE SetProposalReceived(c1, NilProposal)
              ELSE c1
    IN  IF c2.round < m.round /\ HasTwoThirdAny(c2.prevotes, m.round)
        THEN enterNewRound(c2, c2.height, m.round)
        ELSE IF c2.round = m.round /\ RoundStepPrevote <= c2.step
        THEN IF /\ hasMaj
                /\ (IsProposalComplete(c2) \/ blockHash = emptyBlockHash)
             THEN enterPrecommit(c2, c2.height, m.round)
             ELSE IF HasTwoThirdAny(c2.prevotes, m.round)
                  THEN enterPrevoteWait(c2, c2.height, m.round)
             ELSE c2
        ELSE IF /\ c2.proposalReceived # NilProposal
                /\ 0 <= c2.proposalReceived.polRound
                /\ c2.proposalReceived.polRound = m.round
        THEN IF IsProposalComplete(c2)
             THEN enterPrevote(c2, c2.height, m.round)
             ELSE c2
        ELSE c2

\* prevoteAdded unlocking on the +2/3 prevotes of a round after the current
\* one
prevoteAddedUnlockFuture(c, m) ==
    LET hasMaj == HasMajority(c.prevotes, m.round)
        blockHash == MajorityHash(c.prevotes, m.round)
        c1 == IF /\ hasMaj
                 /\ c.lockedRound # -1
                 /\ c.lockedRound < m.round
                 /\ BlockHash(c.lockedBlock) # blockHash
              THEN Unlock(c)
              ELSE c
        c2 == IF /\ hasMaj
                 /\ blockHash # emptyBlockHash
                 /\ c1.validRound < m.round
                 /\ m.round = c1.round
              THEN IF /\ c1.proposalReceived # NilProposal
                      /\ BlockHash(c1.proposalReceived.block) = blockHash
                   THEN SetValidRoundAndBlock(c1, m.round,
                                              c1.proposalReceived.block)
                   ELSE SetProposalReceived(c1, NilProposal)
              ELSE c1
    IN  IF c2.round < m.round /\ HasTwoThirdAny(c2.prevotes, m.round)
        THEN enterNewRound(c2, c2.height, m.round)
        ELSE IF c2.round = m.round /\ RoundStepPrevote <= c2.step
        THEN IF /\ hasMaj
                /\ (IsProposalComplete(c2) \/ blockHash = emptyBlockHash)
             THEN enterPrecommit(c2, c2.height, m.round)
             ELSE IF HasTwoThirdAny(c2.prevotes, m.round)
                  THEN enterPrevoteWait(c2, c2.height, m.round)
             ELSE c2
        ELSE IF /\ c2.proposalReceived # NilProposal
                /\ 0 <= c2.proposalReceived.polRound
                /\ c2.proposalReceived.polRound = m.round
        THEN IF IsProposalComplete(c2)
             THEN enterPrevote(c2, c2.height, m.round)
             ELSE c2
        ELSE c2

\* prevoteAdded keeping a proposal that is not the block of the majority
prevoteAddedKeepProposal(c, m) ==
    LET hasMaj == HasMajority(c.prevotes, m.round)
        blockHash == MajorityHash(c.prevotes, m.round)
        c1 == IF /\ hasMaj
                 /\ c.lockedRound # -1
                 /\ c.lockedRound < m.round
                 /\ m.round <= c.round
                 /\ BlockHash(c.lockedBlock) # blockHash
              THEN Unlock(c)
              ELSE c
        c2 == IF /\ hasMaj
                 /\ blockHash # emptyBlockHash
                 /\ c1.validRound < m.round
                 /\ m.round = c1.round
              THEN IF /\ c1.proposalReceived # NilProposal
                      /\ BlockHash(c1.proposalReceived.block) = blockHash
                   THEN SetValidRoundAndBlock(c1, m.round,
                                              c1.proposalReceived.block)
                   ELSE c1
              ELSE c1
    IN  IF c2.round < m.round /\ HasTwoThirdAny(c2.prevotes, m.round)
        THEN enterNewRound(c2, c2.height, m.round)
        ELSE IF c2.round = m.round /\ RoundStepPrevote <= c2.step
        THEN IF /\ hasMaj
                /\ (IsProposalComplete(c2) \/ blockHash = emptyBlockHash)
             THEN enterPrecommit(c2, c2.height, m.round)
             ELSE IF HasTwoThirdAny(c2.prevotes, m.round)
                  THEN enterPrevoteWait(c2, c2.height, m.round)
             ELSE c2
        ELSE IF /\ c2.proposalReceived # NilProposal
                /\ 0 <= c2.proposalReceived.polRound
                /\ c2.proposalReceived.polRound = m.round
        THEN IF IsProposalComplete(c2)
             THEN enterPrevote(c2, c2.height, m.round)
             ELSE c2
        ELSE c2

prevoteAdded(c, m) ==
    LET hasMaj == HasMajority(c.prevotes, m.round)
        blockHash == MajorityHash(c.prevotes, m.round)
        c1 == IF /\ hasMaj
                 /\ c.lockedRound # -1
                 /\ c.lockedRound < m.round
                 /\ m.round <= c.round
                 /\ BlockHash(c.lockedBlock) # blockHash
              THEN Unlock(c)
              ELSE c
        c2 == IF /\ hasMaj
                 /\ blockHash # emptyBlockHash
                 /\ c1.validRound < m.round
                 /\ m.round = c1.round
              THEN IF /\ c1.proposalReceived # NilProposal
                      /\ BlockHash(c1.proposalReceived.block) = blockHash
                   THEN SetValidRoundAndBlock(c1, m.round,
                                              c1.proposalReceived.block)
                   ELSE SetProposalReceived(c1, NilProposal)
              ELSE c1
    IN  IF c2.round < m.round /\ HasTwoThirdAny(c2.prevotes, m.round)
        THEN enterNewRound(c2, c2.height, m.round)
        ELSE IF c2.round = m.round /\ RoundStepPrevote <= c2.step
        THEN IF /\ hasMaj
                /\ (IsProposalComplete(c2) \/ blockHash = emptyBlockHash)
             THEN enterPrecommit(c2, c2.height, m.round)
             ELSE IF HasTwoThirdAny(c2.prevotes, m.round)
                  THEN enterPrevoteWait(c2, c2.height, m.round)
             ELSE c2
        ELSE IF /\ c2.proposalReceived # NilProposal
                /\ 0 <= c2.proposalReceived.polRound
                /\ c2.proposalReceived.polRound = m.round
        THEN IF IsProposalComplete(c2)
             THEN enterPrevote(c2, c2.height, m.round)
             ELSE c2
        ELSE c2

\* handlePrevote going on when the vote set reports an error
handlePrevoteOnError(c, m, isCgo) ==
    IF m.height # c.height THEN Ret(c, NoErr)
    ELSE LET a == addVote(c.prevotes, m, isCgo)
         IN  IF a.err # NoErr THEN Ret(prevoteAdded(c, m), a.err)
             ELSE IF ~a.added THEN Ret(c, NoErr)
             ELSE Ret(prevoteAdded([c EXCEPT !.prevotes = a.votes], m), NoErr)

\* handlePrevote going on when the vote was in the vote set already
handlePrevoteKnownVote(c, m, isCgo) ==
    IF m.height # c.height THEN Ret(c, NoErr)
    ELSE LET a == addVote(c.prevotes, m, isCgo)
         IN  IF a.err # NoErr THEN Ret(c, a.err)
             ELSE Ret(prevoteAdded([c EXCEPT !.prevotes = a.votes], m), NoErr)

handlePrevote(c, m, isCgo) ==
    IF m.height # c.height THEN Ret(c, NoErr)
    ELSE LET a == addVote(c.prevotes, m, isCgo)
         IN  IF a.err # NoErr THEN Ret(c, a.err)
             ELSE IF ~a.added THEN Ret(c, NoErr)
             ELSE Ret(prevoteAdded([c EXCEPT !.prevotes = a.votes], m), NoErr)

\* the part of handlePrecommit that follows the admission of the vote
precommitAdded(c, m) ==
    IF HasMajority(c.precommits, m.round)
    THEN LET blockHash == MajorityHash(c.precommits, m.round)
             c1 == enterNewRound(c, c.height, m.round)
             c2 == enterPrecommit(c1, c1.height, m.round)
         IN  IF blockHash # emptyBlockHash
             THEN enterCommit(c2, c2.height, m.round)
             ELSE enterPrecommitWait(c2, c2.height, m.round)
    ELSE IF c.round <= m.round /\ HasTwoThirdAny(c.precommits, m.round)
    THEN enterPrecommitWait(enterNewRound(c, c.height, m.round),
                            c.height, m.round)
    ELSE c

handlePrecommit(c, m, isCgo) ==
    IF m.height # c.height THEN Ret(c, NoErr)
    ELSE LET a == addVote(c.precommits, m, isCgo)
         IN  IF a.err # NoErr THEN Ret(c, a.err)
             ELSE IF ~a.added THEN Ret(c, NoErr)
             ELSE Ret(precommitAdded([c EXCEPT !.precommits = a.votes], m),
                      NoErr)

handleMsg(c, m, isCgo) ==
    IF m.code = msgPropose THEN handlePropose(c, m, isCgo)
    ELSE IF m.code = msgPrevote THEN handlePrevote(c, m, isCgo)
    ELSE IF m.code = msgPrecommit THEN handlePrecommit(c, m, isCgo)
    ELSE Ret(c, ErrUnknownCode)

\* a timeout that is not stale is dispatched on its step
\* the stale check without the comparison of the steps
IsStaleByRound(c, ti) ==
    \/ ti.height # c.height
    \/ ti.round < c.round

IsStale(c, ti) ==
    \/ ti.height # c.height
    \/ ti.round < c.round
    \/ (ti.round = c.round /\ ti.step < c.step)

\* the default branch of the switch of handleTimeout: panic "Invalid
\* timeout step"
InvalidTimeoutStep(ti) ==
    ti.step \notin {RoundStepNewHeight, RoundStepNewRound, RoundStepPropose,
                    RoundStepPrevoteWait, RoundStepPrecommitWait}

\* the switch of handleTimeout, run with c.mu held
dispatchTimeout(c, ti) ==
    IF ti.step = RoundStepNewHeight THEN enterNewRound(c, ti.height, 0)
    ELSE IF ti.step = RoundStepNewRound THEN enterPropose(c, ti.height, 0)
    ELSE IF ti.step = RoundStepPropose
         THEN enterPrevote(c, ti.height, ti.round)
    ELSE IF ti.step = RoundStepPrevoteWait
         THEN enterPrecommit(c, ti.height, ti.round)
    ELSE IF ti.step = RoundStepPrecommitWait
         THEN enterNewRound(enterPrecommit(c, ti.height, ti.round),
                            ti.height, ti.round + 1)
    ELSE c

handleTimeout(c, ti) ==
    IF IsStale(c, ti) THEN c
    ELSE dispatchTimeout(c, ti)

----------------------------------------------------------------------------
(* The backend of a node: its transport *)

ErrNoBroadcaster == "ErrNoBroadcaster"

\* the addresses a peer can have: the validators and one more
Addresses == Validators \cup {Outsider}

Payloads == {"p1", "p2"}

\* block numbers, the headers a chain reader returns for them, and the
\* validator field of the extra-data of a header: no bytes, bytes that do
\* not decode, or the encoding of an address list
Numbers == 0..MaxNumber

EmptyBytes == [len |-> 0, valid |-> FALSE, rlp |-> <<>>]
Undecodable == [len |-> 1, valid |-> FALSE, rlp |-> <<>>]

EncodeToBytes(list) == [len |-> 1 + Len(list), valid |-> TRUE, rlp |-> list]

ValidatorAdds ==
    {EmptyBytes, Undecodable, EncodeToBytes(<<>>),
     EncodeToBytes(<<ValList[1], ValList[2]>>)}

\* a header: its hash, whether its extra-data holds a Tendermint extra, and
\* the validator field of that extra; NoHeader is the nil header
NoHeader == [hash |-> "nil", extraOk |-> FALSE, validatorAdds |-> EmptyBytes]

Headers ==
    {[hash |-> "h1", extraOk |-> FALSE, validatorAdds |-> EmptyBytes]}
    \cup {[hash |-> "h1", extraOk |-> TRUE, validatorAdds |-> x] :
            x \in ValidatorAdds}
    \cup {[hash |-> emptyBlockHash, extraOk |-> TRUE,
           validatorAdds |-> EncodeToBytes(<<ValList[1], ValList[2]>>)]}

\* the blocks handed to Commit, and the key of the commit channel of a
\* block number: its decimal string
CommitBlocks == [number : Numbers, hash : Blocks \ {NilBlock}]

NumberString(number) == ToString(number)

\* backend.New and NewStakingValidatorInfo: no broadcaster is set, no peer is
\* connected; sends records every Peer.Send, posted the payloads posted to
\* the node's own event mux, in order, err the error of the last call,
\* chain the headers of the chain reader, valSet the last result of
\* GetValSet, and commitChs the blocks sent on each registered commit channel
NewBackend ==
    [address |-> ValList[2], broadcaster |-> FALSE, peers |-> {},
     sends |-> {}, posted |-> <<>>, err |-> NoErr,
     epoch |-> 1, chain |-> [n \in Numbers |-> NoHeader],
     valSet |-> [number |-> 0, valSet |-> <<>>, err |-> NoErr],
     commitChs |-> [k \in {} |-> <<>>]]

SetBroadcaster(b) == [b EXCEPT !.broadcaster = TRUE]

\* Broadcaster.FindPeers: the connected peers with an address in targets
FindPeers(b, targets) == b.peers \cap targets

\* Gossip that does not leave the node's own address out of the targets
GossipToAll(b, valSet, payload) ==
    LET targets == valSet
    IN  IF ~b.broadcaster THEN [b EXCEPT !.err = ErrNoBroadcaster]
        ELSE IF targets # {}
        THEN [b EXCEPT !.err = NoErr,
                       !.sends = @ \cup {[to |-> q, payload |-> payload] :
                                            q \in FindPeers(b, targets)}]
        ELSE [b EXCEPT !.err = NoErr]

Gossip(b, valSet, payload) ==
    LET targets == {a \in valSet : a # b.address}
    IN  IF ~b.broadcaster THEN [b EXCEPT !.err = ErrNoBroadcaster]
        ELSE IF targets # {}
        THEN [b EXCEPT !.err = NoErr,
                       !.sends = @ \cup {[to |-> q, payload |-> payload] :
                                            q \in FindPeers(b, targets)}]
        ELSE [b EXCEPT !.err = NoErr]

\* backend.Broadcast: Gossip, and when Gossip returned no error the post of
\* the payload to the node's own event mux
BroadcastPayload(b, valSet, payload) ==
    LET g == Gossip(b, valSet, payload)
    IN  IF g.err # NoErr THEN g
        ELSE [g EXCEPT !.posted = Append(@, payload)]

\* Commit sending the block on every registered commit channel
CommitOnEvery(b, block) ==
    [b EXCEPT !.commitChs = [k \in DOMAIN @ |-> Append(@[k], block)]]

\* backend.Commit
Commit(b, block) ==
    LET key == NumberString(block.number)
    IN  IF key \notin DOMAIN b.commitChs THEN b
        ELSE [b EXCEPT !.commitChs[key] = Append(@, block)]

ErrUnknownBlock == "ErrUnknownBlock"
ErrEmptyValSet == "ErrEmptyValSet"
ErrExtra == "ErrExtra"

GetCheckpointNumber(epoch, number) == number - (number % epoch)

\* validator.NewSet: the validator set of an address list, in its order
NewSet(addrs) == addrs

\* GetValSet reading the header of the block number itself
GetValSetAtNumber(chain, epoch, number) ==
    LET valSet == NewSet(<<>>)
        header == chain[number]
        ret(set, err) == [number |-> number, valSet |-> set, err |-> err]
    IN  IF header = NoHeader THEN ret(valSet, ErrUnknownBlock)
        ELSE IF header.hash = emptyBlockHash THEN ret(valSet, ErrUnknownBlock)
        ELSE IF ~header.extraOk THEN ret(valSet, ErrExtra)
        ELSE IF header.validatorAdds.len = 0
             THEN ret(valSet, ErrEmptyValSet)
        ELSE IF ~header.validatorAdds.valid THEN ret(valSet, ErrDecode)
        ELSE ret(NewSet(header.validatorAdds.rlp), NoErr)

GetValSet(chain, epoch, number) ==
    LET checkPoint == GetCheckpointNumber(epoch, number)
        valSet == NewSet(<<>>)
        header == chain[checkPoint]
        ret(set, err) == [number |-> number, valSet |-> set, err |-> err]
    IN  IF header = NoHeader THEN ret(valSet, ErrUnknownBlock)
        ELSE IF header.hash = emptyBlockHash THEN ret(valSet, ErrUnknownBlock)
        ELSE IF ~header.extraOk THEN ret(valSet, ErrExtra)
        ELSE IF header.validatorAdds.len = 0
             THEN ret(valSet, ErrEmptyValSet)
        ELSE IF ~header.validatorAdds.valid THEN ret(valSet, ErrDecode)
        ELSE ret(NewSet(header.validatorAdds.rlp), NoErr)

----------------------------------------------------------------------------
(* The environment *)

\* the nodes that run the core: the validators that are not faulty, or a
\* node outside the validator set
correct == DOMAIN core

\* every message a correct replica has broadcast
Net == UNION {core[j].sent : j \in correct}

\* A vote set below +2/3 is not observable by the handlers, and a vote is
\* handled by its round, its hash and the votes already in the set, not by
\* its sender: the faulty validators vote in the order of the validator list
\* within one round and kind, and their votes for a block precede their nil
\* votes.
NextVoter(votes, r) ==
    {s \in faulty :
        /\ \A v \in VotesAt(votes, r) : v.address # s
        /\ \A t \in faulty :
              GetByAddress(t) < GetByAddress(s)
                  => \E v \in VotesAt(votes, r) : v.address = t}

InVoteOrder(votes, m) ==
    /\ m.address \in NextVoter(votes, m.round)
    /\ m.block # emptyBlockHash
          => \A v \in VotesAt(votes, m.round) : v.hash # emptyBlockHash

VotesOf(c, code) == IF code = msgPrevote THEN c.prevotes ELSE c.precommits

VoteHashes == {"A", emptyBlockHash}

\* votes signed so that the recovery of the node's build accepts them
EnvVotes ==
    {Message(code, CurHeight, r, h, -1, s, s, "raw") :
        code \in {msgPrevote, msgPrecommit}, r \in Rounds, h \in VoteHashes,
        s \in faulty}

\* the faulty validators the rejected messages are drawn from: the proposer
\* of round 0 and a validator that proposes in no round of the model
ProposerSender == faulty \cap {ValList[1]}
OtherSender == faulty \cap {ValList[3]}

\* votes that are late, signed as backend.Sign signs, carry the address of
\* another validator or come from no validator, and a message of an unknown
\* code
EnvBadVotes ==
    {Message(code, OtherHeight, 0, "A", -1, s, s, "raw") :
        code \in {msgPrevote, msgPrecommit}, s \in OtherSender}
    \cup {Message(code, CurHeight, 0, "A", -1, s, s, "keccak") :
            code \in {msgPrevote, msgPrecommit, 3}, s \in OtherSender}
    \cup {Message(code, CurHeight, 0, "A", -1, a, s, "raw") :
            code \in {msgPrevote, msgPrecommit}, a \in correct,
            s \in OtherSender}
    \cup {Message(code, CurHeight, 0, "A", -1, Outsider, Outsider, "raw") :
            code \in {msgPrevote, msgPrecommit}}

\* proposals the recovery accepts, and proposals that are late, signed as
\* backend.Sign signs, or without a block
EnvProposals ==
    {Message(msgPropose, CurHeight, r, "A", pol, s, s, "raw") :
        r \in Rounds, pol \in -1..(MaxRound - 1),
        s \in ProposerSender \cup OtherSender}
    \cup {Message(msgPropose, CurHeight, r, "B", -1, s, s, "raw") :
            r \in Rounds, s \in ProposerSender \cup OtherSender}
    \cup {Message(msgPropose, OtherHeight, 0, "A", -1, s, s, "raw") :
            s \in ProposerSender}
    \cup {Message(msgPropose, CurHeight, r, "A", -1, s, s, "keccak") :
            r \in Rounds, s \in ProposerSender}
    \cup {Message(msgPropose, CurHeight, 0, NilBlock, -1, s, s, "raw") :
            s \in ProposerSender}

VoteCount(c) == Cardinality(c.prevotes) + Cardinality(c.precommits)

----------------------------------------------------------------------------
(* Actions *)

\* core.Start: startRoundZero of replica i
StartRoundZero(i) ==
    /\ core' = [core EXCEPT ![i] = startRoundZero(core[i])]
    /\ UNCHANGED <<faulty, cgo, backend>>

\* NewBlockEvent: SetBlock of the block the node assembled
NewBlock(i) ==
    /\ core' = [core EXCEPT ![i] = SetBlock(core[i], OwnBlock)]
    /\ UNCHANGED <<faulty, cgo, backend>>

\* MessageEvent carrying a message broadcast by a correct replica
Deliver(i, m) ==
    /\ core' = [core EXCEPT ![i] = handleMsg(core[i], m, cgo).c]
    /\ UNCHANGED <<faulty, cgo, backend>>

\* MessageEvent carrying a vote of a faulty validator
EnvVote(i, m) ==
    /\ VoteCount(core[i]) < MaxVotes
    /\ InVoteOrder(VotesOf(core[i], m.code), m)
    /\ core' = [core EXCEPT ![i] = handleMsg(core[i], m, cgo).c]
    /\ UNCHANGED <<faulty, cgo, backend>>

\* MessageEvent carrying a vote of a faulty validator that has a vote of the
\* kind and round in the vote set: the same vote again, or another hash
HasVoted(votes, m) ==
    \E v \in VotesAt(votes, m.round) : v.address = m.address

EnvRevote(i, m) ==
    /\ HasVoted(VotesOf(core[i], m.code), m)
    /\ core' = [core EXCEPT ![i] = handleMsg(core[i], m, cgo).c]
    /\ UNCHANGED <<faulty, cgo, backend>>

\* MessageEvent carrying any other message of a faulty validator
EnvMsg(i, m) ==
    /\ core' = [core EXCEPT ![i] = handleMsg(core[i], m, cgo).c]
    /\ UNCHANGED <<faulty, cgo, backend>>

\* an armed timer of replica i fires
Timeout(i, ti) ==
    /\ core' = [core EXCEPT ![i] =
                  handleTimeout([core[i] EXCEPT !.timeouts = @ \ {ti}], ti)]
    /\ UNCHANGED <<faulty, cgo, backend>>

\* a timer that was superseded fires: it is older than the armed one
Older(ti, tj) ==
    /\ ti.height = tj.height
    /\ \/ ti.round < tj.round
       \/ (ti.round = tj.round /\ ti.step < tj.step)

OldTimeout(i, ti) ==
    /\ \E tj \in core[i].timeouts : Older(ti, tj)
    /\ core' = [core EXCEPT ![i] = handleTimeout(core[i], ti)]
    /\ UNCHANGED <<faulty, cgo, backend>>

----------------------------------------------------------------------------
(* Specifications *)

InitWith(f) ==
    /\ faulty = f
    /\ cgo \in BOOLEAN
    /\ backend = NewBackend
    /\ core = [i \in Validators \ f |-> NewCore(i)]

\* one replica, every other validator is the environment
Init == InitWith(Validators \ {"v2"})

AllMsgs == Net \cup EnvVotes \cup EnvBadVotes \cup EnvProposals

AllTimeouts ==
    {TimeoutInfo(CurHeight, r, s) :
        r \in 0..(MaxRound + 1),
        s \in {RoundStepPropose, RoundStepPrevoteWait, RoundStepPrecommitWait}}

Next ==
    \/ \E i \in correct : StartRoundZero(i)
    \/ \E i \in correct : NewBlock(i)
    \/ \E i \in correct : \E m \in Net : Deliver(i, m)
    \/ \E i \in correct : \E m \in EnvVotes : EnvVote(i, m)
    \/ \E i \in correct : \E m \in EnvVotes : EnvRevote(i, m)
    \/ \E i \in correct : \E m \in EnvBadVotes \cup EnvProposals : EnvMsg(i, m)
    \/ \E i \in correct : \E ti \in core[i].timeouts : Timeout(i, ti)
    \/ \E i \in correct : \E ti \in AllTimeouts : OldTimeout(i, ti)

Spec == Init /\ [][Next]_vars

\* every validator is correct; the event loop handles every event posted to
\* it and every armed timer fires
LiveInit == InitWith({})

LiveNext ==
    \/ \E i \in correct : StartRoundZero(i)
    \/ \E i \in correct : NewBlock(i)
    \/ \E i \in correct : \E m \in Net : Deliver(i, m)
    \/ \E i \in correct : \E ti \in core[i].timeouts : Timeout(i, ti)

Fairness ==
    \A i \in Validators :
        /\ WF_vars(StartRoundZero(i))
        /\ WF_vars(NewBlock(i))
        /\ WF_vars(\E m \in Net : Deliver(i, m))
        /\ WF_vars(\E ti \in core[i].timeouts : Timeout(i, ti))

LiveSpec == LiveInit /\ [][LiveNext]_vars /\ Fairness

\* a node outside the validator set runs the core; the validators it hears
\* are the environment
OutsiderInit ==
    /\ faulty = Validators \ {"v2"}
    /\ cgo = FALSE
    /\ backend = NewBackend
    /\ core = [i \in {Outsider} |-> NewCore(i)]

OutsiderSpec == OutsiderInit /\ [][Next]_vars

\* The replica is started on a round state that holds a lock: in round 0 it
\* stored the proposal of block b, saw the +2/3 prevotes of the other
\* validators for it and sent its own prevote and precommit, and its round
\* state holds b as valid and locked block of round 0.  The round state and
\* its lock are kept outside enterPrecommit, which sets no lock itself.
LockedCore(addr, b) ==
    [NewCore(addr) EXCEPT
        !.step = RoundStepPrecommit,
        !.proposalReceived = [block |-> b, round |-> 0, polRound |-> -1],
        !.stored = <<[block |-> b, round |-> 0, polRound |-> -1]>>,
        !.lockedRound = 0, !.lockedBlock = b,
        !.validRound = 0, !.validBlock = b,
        !.prevotes = {[round |-> 0, address |-> s, hash |-> BlockHash(b)] :
                        s \in Validators \ {addr}},
        !.sent = {Message(code, CurHeight, 0, BlockHash(b), -1, addr,
                          Sign(addr).signer, Sign(addr).over) :
                    code \in {msgPrevote, msgPrecommit}},
        !.timeouts = {TimeoutInfo(CurHeight, 0, RoundStepPropose)}]

LockedInit ==
    /\ faulty = Validators \ {"v2"}
    /\ cgo = FALSE
    /\ backend = NewBackend
    /\ \E b \in Blocks : core = [i \in {"v2"} |-> LockedCore(i, b)]

\* MessageEvent carrying a vote of a faulty validator, the votes of the
\* lock not counted
LockedEnvVote(i, m) ==
    /\ VoteCount(core[i]) < Q + MaxVotes
    /\ InVoteOrder(VotesOf(core[i], m.code), m)
    /\ core' = [core EXCEPT ![i] = handleMsg(core[i], m, cgo).c]
    /\ UNCHANGED <<faulty, cgo, backend>>

LockedNext ==
    \/ \E i \in correct : NewBlock(i)
    \/ \E i \in correct : \E m \in Net : Deliver(i, m)
    \/ \E i \in correct : \E m \in EnvVotes : LockedEnvVote(i, m)
    \/ \E i \in correct : \E m \in EnvProposals : EnvMsg(i, m)
    \/ \E i \in correct : \E ti \in core[i].timeouts : Timeout(i, ti)

LockedSpec == LockedInit /\ [][LockedNext]_vars

\* The event loop and a caller outside it.  handleTimeout reads the round
\* state and makes its stale check before it takes c.mu, and runs its switch
\* with c.mu held; handleMsg takes c.mu for the whole handler.  A caller
\* outside the loop that hands a vote to handleMsg runs between the check
\* and the switch.  The node runs the core outside the validator set and
\* hears the votes of the four validators.
InLoop(i) == core[i].checked = {}

\* the validators vote in the order of the validator list, for any hash
RaceVote(i, m) ==
    /\ VoteCount(core[i]) < MaxVotes
    /\ m.address \in NextVoter(VotesOf(core[i], m.code), m.round)
    /\ core' = [core EXCEPT ![i] = handleMsg(core[i], m, cgo).c]
    /\ UNCHANGED <<faulty, cgo, backend>>

LoopVote(i, m) ==
    /\ InLoop(i)
    /\ RaceVote(i, m)

CallerVote(i, m) ==
    /\ ~InLoop(i)
    /\ RaceVote(i, m)

TimeoutCheck(i, ti) ==
    /\ InLoop(i)
    /\ core' = [core EXCEPT ![i] =
                  IF IsStale(core[i], ti)
                  THEN [core[i] EXCEPT !.timeouts = @ \ {ti}]
                  ELSE [core[i] EXCEPT !.timeouts = @ \ {ti},
                                       !.checked = {ti}]]
    /\ UNCHANGED <<faulty, cgo, backend>>

TimeoutRun(i, ti) ==
    /\ core' = [core EXCEPT ![i] =
                  dispatchTimeout([core[i] EXCEPT !.checked = {}], ti)]
    /\ UNCHANGED <<faulty, cgo, backend>>

RaceInit ==
    /\ faulty = Validators
    /\ cgo = FALSE
    /\ backend = NewBackend
    /\ core = [i \in {Outsider} |-> NewCore(i)]

RaceNext ==
    \/ \E i \in correct : InLoop(i) /\ StartRoundZero(i)
    \/ \E i \in correct : \E m \in EnvVotes : LoopVote(i, m)
    \/ \E i \in correct : \E m \in EnvVotes : CallerVote(i, m)
    \/ \E i \in correct : \E ti \in core[i].timeouts : TimeoutCheck(i, ti)
    \/ \E i \in correct : \E ti \in core[i].checked : TimeoutRun(i, ti)

RaceSpec == RaceInit /\ [][RaceNext]_vars

\* the transport of one node: the broadcaster is attached, peers connect
\* and drop, and the node gossips payloads to validator sets
BackendSetBroadcaster ==
    /\ backend' = SetBroadcaster(backend)
    /\ UNCHANGED <<core, faulty, cgo>>

PeerConnect(a) ==
    /\ a \notin backend.peers
    /\ backend' = [backend EXCEPT !.peers = @ \cup {a}]
    /\ UNCHANGED <<core, faulty, cgo>>

PeerDrop(a) ==
    /\ a \in backend.peers
    /\ backend' = [backend EXCEPT !.peers = @ \ {a}]
    /\ UNCHANGED <<core, faulty, cgo>>

BackendGossip(valSet, payload) ==
    /\ backend' = Gossip(backend, valSet, payload)
    /\ UNCHANGED <<core, faulty, cgo>>

BackendBroadcast(valSet, payload) ==
    /\ Len(backend.posted) < MaxPosts
    /\ backend' = BroadcastPayload(backend, valSet, payload)
    /\ UNCHANGED <<core, faulty, cgo>>

BackendInit ==
    /\ faulty = Validators
    /\ cgo = TRUE
    /\ core = [i \in {} |-> NewCore(i)]
    /\ backend = NewBackend

BackendNext ==
    \/ BackendSetBroadcaster
    \/ \E a \in Addresses : PeerConnect(a)
    \/ \E a \in Addresses : PeerDrop(a)
    \/ \E valSet \in SUBSET Validators : \E payload \in Payloads :
          BackendGossip(valSet, payload)
    \/ \E valSet \in SUBSET Validators : \E payload \in Payloads :
          BackendBroadcast(valSet, payload)

BackendSpec == BackendInit /\ [][BackendNext]_vars

\* the validator set of a height: headers are inserted into the chain and
\* GetValSet is asked for the validator set of a block number
ChainInsert(n, header) ==
    /\ backend.chain[n] = NoHeader
    /\ backend' = [backend EXCEPT !.chain[n] = header]
    /\ UNCHANGED <<core, faulty, cgo>>

BackendGetValSet(number) ==
    /\ backend' = [backend EXCEPT
                      !.valSet = GetValSet(backend.chain, backend.epoch,
                                           number)]
    /\ UNCHANGED <<core, faulty, cgo>>

ValSetInit ==
    /\ faulty = Validators
    /\ cgo = TRUE
    /\ core = [i \in {} |-> NewCore(i)]
    /\ backend \in {[NewBackend EXCEPT !.epoch = e] : e \in 1..MaxEpoch}

ValSetNext ==
    \/ \E n \in Numbers : \E header \in Headers : ChainInsert(n, header)
    \/ \E number \in Numbers : BackendGetValSet(number)

ValSetSpec == ValSetInit /\ [][ValSetNext]_vars

\* the commit channels of a node: a channel is registered for a height,
\* and blocks are handed to Commit; a send on a registered channel waits
\* for room on it
RegisterCommitCh(number) ==
    /\ NumberString(number) \notin DOMAIN backend.commitChs
    /\ backend' = [backend EXCEPT
                      !.commitChs = [k \in DOMAIN @ \cup {NumberString(number)}
                                        |-> IF k \in DOMAIN @ THEN @[k]
                                            ELSE <<>>]]
    /\ UNCHANGED <<core, faulty, cgo>>

BackendCommit(block) ==
    /\ NumberString(block.number) \in DOMAIN backend.commitChs
          => Len(backend.commitChs[NumberString(block.number)]) < MaxCommits
    /\ backend' = Commit(backend, block)
    /\ UNCHANGED <<core, faulty, cgo>>

CommitNext ==
    \/ \E number \in Numbers : RegisterCommitCh(number)
    \/ \E block \in CommitBlocks : BackendCommit(block)

CommitSpec == BackendInit /\ [][CommitNext]_vars

----------------------------------------------------------------------------
(* Properties *)

\* (round, step) of a replica before (r1, s1) in lexicographic order
LexLess(r1, s1, r2, s2) == r1 < r2 \/ (r1 = r2 /\ s1 < s2)

\* C3: once the step of a replica is Commit, no message and no timeout
\* changes its step or its round.
CommitIsFinal ==
    [][\A i \in correct :
          core[i].step = RoundStepCommit
              => /\ core'[i].step = RoundStepCommit
                 /\ core'[i].round = core[i].round]_vars

\* C5: a correct replica at round r eventually reaches round r + 1 or step
\* Commit, when messages are delivered and armed timers fire.
RoundAdvancesOrCommits ==
    \A i \in Validators : \A r \in Rounds :
        (i \in correct /\ core[i].round = r)
            ~> (i \in correct /\ (\/ core[i].round = r + 1
                                  \/ core[i].step = RoundStepCommit))

\* C6: every change of (round, step) of a replica strictly increases the
\* pair in lexicographic order, the height being fixed.
StepIncreases ==
    [][\A i \in correct :
          /\ core'[i].height = core[i].height
          /\ \/ (core'[i].round = core[i].round
                    /\ core'[i].step = core[i].step)
             \/ LexLess(core[i].round, core[i].step,
                        core'[i].round, core'[i].step)]_vars

\* a replica skipped to round 1 and went on to wait for prevotes there
StepIncreasesWitness ==
    \E i \in correct :
        /\ core[i].round = 1
        /\ core[i].step = RoundStepPrevoteWait

ValidRoundBound == \A i \in correct : core[i].validRound <= core[i].round

\* the valid block was set from the +2/3 prevotes of round 1
ValidRoundBoundWitness ==
    \E i \in correct : core[i].validRound = 1 /\ core[i].round = 1

\* C9: valid_round never decreases within the height.
ValidRoundMonotone ==
    [][\A i \in correct : core'[i].validRound >= core[i].validRound]_vars

ProposerRoundRobin ==
    \A i \in correct :
        core[i].proposer = (NewCore(i).proposer + core[i].round) % Size

\* C12: the proposal a replica holds has pol_round = -1 or
\* 0 <= pol_round < round of the proposal.
ProposalPOLInRange ==
    \A i \in correct :
        LET p == core[i].proposalReceived
        IN  p # NilProposal
                => (p.polRound = -1 \/ (0 <= p.polRound /\ p.polRound < p.round))

\* C13: handlePropose stores at most one proposal for a round of the height.
OneProposalPerRound ==
    \A i \in correct :
        \A j, k \in 1..Len(core[i].stored) :
            j < k => core[i].stored[j].round # core[i].stored[k].round

\* C14: handling a message a second time, right after the first, leaves
\* the state the first handling produced.
ReplayIdempotent ==
    \A i \in correct : \A m \in AllMsgs :
        LET once == handleMsg(core[i], m, cgo).c
        IN  handleMsg(once, m, cgo).c = once

\* a replica holds a proposal it stored and a prevote it admitted, and the
\* prevote arrives again
ReplayWitness ==
    \E i \in correct : \E m \in EnvVotes :
        /\ m.code = msgPrevote
        /\ [round |-> m.round, address |-> m.address, hash |-> m.block]
              \in core[i].prevotes
        /\ core[i].proposalReceived # NilProposal
        /\ core[i].step >= RoundStepPrevote
        /\ handleMsg(core[i], m, cgo).c = core[i]

\* the core with no timer armed and no message recorded as broadcast, so
\* that any timer armed and any message broadcast afterwards shows
Quiet(c) == [c EXCEPT !.timeouts = {}, !.sent = {}]

\* C15: a call of enterNewRound, enterPropose, enterPrevote,
\* enterPrevoteWait or enterPrecommit with the (h, r) of the call before it
\* changes no round state, arms no timer and broadcasts no message.
EnterIdempotent ==
    \A i \in correct : \A r \in 0..(MaxRound + 1) :
        LET c == core[i]
            h == c.height
            q1 == Quiet(enterNewRound(c, h, r))
            q2 == Quiet(enterPropose(c, h, r))
            q3 == Quiet(enterPrevote(c, h, r))
            q4 == Quiet(enterPrevoteWait(c, h, r))
            q5 == Quiet(enterPrecommit(c, h, r))
        IN  /\ enterNewRound(q1, h, r) = q1
            /\ enterPropose(q2, h, r) = q2
            /\ enterPrevote(q3, h, r) = q3
            /\ enterPrevoteWait(q4, h, r) = q4
            /\ enterPrecommit(q5, h, r) = q5

\* a replica entered PrevoteWait and armed its timer, and the proposer of
\* round 1 entered Propose and broadcast its proposal
EnterIdempotentWitness ==
    \E i \in correct :
        /\ core[i].round = 1
        /\ core[i].step = RoundStepPrevoteWait
        /\ TimeoutInfo(core[i].height, 1, RoundStepPrevoteWait)
              \in core[i].timeouts
        /\ \E m \in core[i].sent : m.code = msgPropose /\ m.round = 1
        /\ enterPrevoteWait(Quiet(core[i]), core[i].height, 1)
              = Quiet(core[i])

Equivocates(c, m) ==
    \E v \in VotesAt(VotesOf(c, m.code), m.round) :
        v.address = m.address /\ v.hash # m.block

\* C17: a vote of a validator for a hash other than the hash of its admitted
\* vote of the same kind and round is answered with the equivocation error
\* and leaves the vote sets, the round state, the timers and the broadcast
\* messages as they were.
EquivocationRejected ==
    \A i \in correct : \A m \in EnvVotes :
        Equivocates(core[i], m)
            => handleMsg(core[i], m, cgo) = Ret(core[i], ErrEquivocation)

\* a replica that prevoted holds +2/3-any prevotes of its round, and a
\* second prevote of one of the voters for another hash is rejected
EquivocationWitness ==
    \E i \in correct : \E m \in EnvVotes :
        /\ m.code = msgPrevote
        /\ m.round = core[i].round
        /\ core[i].step = RoundStepPrevote
        /\ HasTwoThirdAny(core[i].prevotes, m.round)
        /\ Equivocates(core[i], m)
        /\ handleMsg(core[i], m, cgo) = Ret(core[i], ErrEquivocation)

\* timers of the height and of another height, of every round and step
AnyTimeouts ==
    {TimeoutInfo(h, r, st) :
        h \in Heights, r \in 0..(MaxRound + 1),
        st \in RoundStepNewHeight..RoundStepCommit}

\* C18: a fired timeout of another height, of a round below the current
\* round, or of the current round and a step below the current step leaves
\* the round state, the timers and the broadcast messages as they were.
StaleTimeoutDiscarded ==
    \A i \in correct : \A ti \in AnyTimeouts :
        (\/ ti.height # core[i].height
         \/ ti.round < core[i].round
         \/ (ti.round = core[i].round /\ ti.step < core[i].step))
            => handleTimeout(core[i], ti) = core[i]

\* the timer a replica armed is still armed when the replica has moved on
\* to a later step of the round, and firing it changes nothing
StaleTimeoutWitness ==
    \E i \in correct : \E ti \in core[i].timeouts :
        /\ ti.round = core[i].round
        /\ ti.step < core[i].step
        /\ handleTimeout(core[i], ti) = core[i]

\* C19: when every validator is correct and the proposer of round 0 has
\* broadcast its proposal for a block at round 0, every replica eventually
\* commits the block in round 0.
HappyPathCommits ==
    (/\ faulty = {}
     /\ \E m \in core[ValList[1]].sent :
           /\ m.code = msgPropose
           /\ m.round = 0
           /\ m.block = OwnBlock)
        ~> (\A i \in correct :
               /\ core[i].step = RoundStepCommit
               /\ core[i].round = 0
               /\ [round |-> 0, hash |-> BlockHash(OwnBlock)]
                     \in core[i].commits)

\* C20: Gossip sends the payload only to connected peers whose address is
\* in the validator set passed to it and is not the node's address; with no
\* broadcaster it returns ErrNoBroadcaster and sends nothing.
GossipTargets ==
    /\ \A x \in backend.sends : x.to # backend.address
    /\ \A valSet \in SUBSET Validators : \A payload \in Payloads :
          LET b == [backend EXCEPT !.sends = {}]
              r == Gossip(b, valSet, payload)
          IN  IF backend.broadcaster
              THEN /\ r.err = NoErr
                   /\ \A x \in r.sends :
                         /\ x.payload = payload
                         /\ x.to \in backend.peers
                         /\ x.to \in valSet
                         /\ x.to # backend.address
              ELSE r = [b EXCEPT !.err = ErrNoBroadcaster]

\* the node gossiped while a peer with its own address and a peer outside
\* the validator set were connected
GossipWitness ==
    /\ backend.broadcaster
    /\ backend.err = NoErr
    /\ backend.sends # {}
    /\ {backend.address, Outsider} \subseteq backend.peers

\* C21: every Broadcast posts the payload to the node's own event mux
\* exactly once, whatever the validator set passed to it.
BroadcastPostsToSelf ==
    \A valSet \in SUBSET Validators : \A payload \in Payloads :
        LET b == [backend EXCEPT !.posted = <<>>]
        IN  BroadcastPayload(b, valSet, payload).posted = <<payload>>

\* C22: GetValSet reads the header at the checkpoint of the block number
\* and returns the validator set of the address list in its extra-data with
\* no error; ErrUnknownBlock when the header is absent or has the zero hash,
\* ErrEmptyValSet when the validator field is empty, the decode error
\* otherwise; the set returned with an error is empty.
GetValSetResult ==
    /\ backend.valSet.err # NoErr => backend.valSet.valSet = <<>>
    /\ \A number \in Numbers :
          LET r == GetValSet(backend.chain, backend.epoch, number)
              h == backend.chain[number - (number % backend.epoch)]
              ans == [valSet |-> r.valSet, err |-> r.err]
              fail(err) == [valSet |-> <<>>, err |-> err]
          IN  IF h = NoHeader THEN ans = fail(ErrUnknownBlock)
              ELSE IF h.hash = emptyBlockHash THEN ans = fail(ErrUnknownBlock)
              ELSE IF ~h.extraOk THEN ans = fail(ErrExtra)
              ELSE IF h.validatorAdds = EmptyBytes
                   THEN ans = fail(ErrEmptyValSet)
              ELSE IF h.validatorAdds = Undecodable
                   THEN ans = fail(ErrDecode)
              ELSE ans = [valSet |-> h.validatorAdds.rlp, err |-> NoErr]

\* with epoch 2, the validator set of block 1 was read from the header of
\* block 0 while block 1 has a header without a validator field
GetValSetWitness ==
    /\ backend.epoch = 2
    /\ backend.valSet
          = [number |-> 1, valSet |-> <<ValList[1], ValList[2]>>,
             err |-> NoErr]
    /\ backend.chain[1] # NoHeader
    /\ backend.chain[1].extraOk
    /\ backend.chain[1].validatorAdds = EmptyBytes

\* C23: the address recovered from a message signed with backend.Sign over
\* its payload without signature is the address of the signing key.
SignRecoverRoundTrip ==
    \A i \in correct : \A m \in core[i].sent :
        GetAddressFromSignature(m, cgo) = core[i].address

\* C24: Commit sends the block on the commit channel registered for the
\* number of the block and on no other channel; with no channel registered
\* for that number it sends nothing and leaves the channel map as it was.
CommitDelivers ==
    /\ \A k \in DOMAIN backend.commitChs :
          \A j \in 1..Len(backend.commitChs[k]) :
              NumberString(backend.commitChs[k][j].number) = k
    /\ \A block \in CommitBlocks :
          LET after == Commit(backend, block)
              key == NumberString(block.number)
          IN  IF key \in DOMAIN backend.commitChs
              THEN /\ DOMAIN after.commitChs = DOMAIN backend.commitChs
                   /\ after.commitChs[key]
                         = Append(backend.commitChs[key], block)
                   /\ \A k \in DOMAIN backend.commitChs \ {key} :
                         after.commitChs[k] = backend.commitChs[k]
                   /\ after = [backend EXCEPT !.commitChs = after.commitChs]
              ELSE after = backend

\* a block of number 1 was sent on the channel of height 1 while channels
\* are registered for heights 0 and 2 as well
CommitDeliversWitness ==
    /\ DOMAIN backend.commitChs = {"0", "1", "2"}
    /\ backend.commitChs["1"] = <<[number |-> 1, hash |-> OwnBlock]>>
    /\ backend.commitChs["0"] = <<>>
    /\ backend.commitChs["2"] = <<>>

\* C25: a prevote whose admission gives the prevotes of its round a +2/3
\* majority clears the lock exactly when the replica is locked, the locked
\* round is before the round of the vote, the round of the vote is not
\* after the current round and the locked block is not the block of the
\* majority; in every other case handlePrevote leaves the lock as it was.
UnlockOnPOL ==
    \A i \in correct :
      \A m \in {v \in EnvVotes \cup EnvBadVotes \cup Net :
                  v.code = msgPrevote} :
        LET c == core[i]
            after == handlePrevote(c, m, cgo).c
            admitted == after.prevotes # c.prevotes
            unlocks ==
                /\ admitted
                /\ HasMajority(after.prevotes, m.round)
                /\ c.lockedRound # -1
                /\ c.lockedRound < m.round
                /\ m.round <= c.round
                /\ BlockHash(c.lockedBlock)
                      # MajorityHash(after.prevotes, m.round)
        IN  IF unlocks
            THEN after.lockedRound = -1 /\ after.lockedBlock = NilBlock
            ELSE /\ after.lockedRound = c.lockedRound
                 /\ after.lockedBlock = c.lockedBlock

\* the replica that was locked on block B in round 0 is in round 1 with
\* +2/3 prevotes of round 1 for block A and holds no lock
UnlockOnPOLWitness ==
    \E i \in correct :
        /\ core[i].stored[1].block = "B"
        /\ core[i].round = 1
        /\ MajorityHash(core[i].prevotes, 1) = "A"
        /\ core[i].lockedRound = -1
        /\ core[i].lockedBlock = NilBlock

\* C26: a prevote whose admission gives the prevotes of the current round a
\* +2/3 majority for a block, with the valid round before that round, makes
\* the received proposal the valid block of the round when it is the block
\* of the majority and clears the received proposal otherwise, and
\* handlePropose then stores a later proposal of the round; any other
\* prevote leaves valid round, valid block and received proposal as they
\* were.
ValidBlockAtPOL ==
    \A i \in correct :
        \A m \in {v \in EnvVotes \cup Net : v.code = msgPrevote} :
            LET c == core[i]
                after == handlePrevote(c, m, cgo).c
                hMaj == MajorityHash(after.prevotes, m.round)
                pol == /\ after.prevotes # c.prevotes
                       /\ HasMajority(after.prevotes, m.round)
                       /\ hMaj # emptyBlockHash
                       /\ c.validRound < m.round
                       /\ m.round = c.round
            IN  IF pol /\ BlockHash(c.proposalReceived.block) = hMaj
                THEN /\ after.validRound = m.round
                     /\ after.validBlock = c.proposalReceived.block
                     /\ after.proposalReceived = c.proposalReceived
                ELSE IF pol
                THEN /\ after.validRound = c.validRound
                     /\ after.validBlock = c.validBlock
                     /\ after.proposalReceived = NilProposal
                     /\ \A p \in EnvProposals :
                           LET proposal == [block |-> p.block,
                                            round |-> p.round,
                                            polRound |-> p.polRound]
                           IN  /\ p.block # NilBlock
                               /\ p.height = after.height
                               /\ p.round = after.round
                               /\ verifyProposal(after, proposal, p, cgo)
                                     = NoErr
                               => handlePropose(after, p, cgo).c.proposalReceived
                                     = proposal
                ELSE /\ after.validRound = c.validRound
                     /\ after.validBlock = c.validBlock
                     /\ after.proposalReceived = c.proposalReceived

\* the replica stored the proposal of block B, the +2/3 prevotes of the
\* round for block A cleared it, and it stored the proposal of block A of
\* the same round
ValidBlockAtPOLWitness ==
    \E i \in correct :
        /\ Len(core[i].stored) = 2
        /\ core[i].stored[1].round = core[i].stored[2].round
        /\ core[i].stored[1].block = "B"
        /\ core[i].stored[2].block = "A"
        /\ MajorityHash(core[i].prevotes, core[i].round) = "A"
        /\ core[i].validRound = -1

EnterProposeEndsAtPropose ==
    \A i \in correct : \A r \in 0..(MaxRound + 1) :
        LET c == Quiet(core[i])
            after == enterPropose(c, c.height, r)
            passes == ~(c.round > r
                          \/ (c.round = r /\ c.step >= RoundStepPropose))
            proposals == {m \in after.sent : m.code = msgPropose}
            own == IF c.validBlock # NilBlock
                   THEN Message(msgPropose, c.height, r, c.validBlock,
                                c.validRound, c.address,
                                Sign(c.address).signer, Sign(c.address).over)
                   ELSE Message(msgPropose, c.height, r, c.block, -1,
                                c.address, Sign(c.address).signer,
                                Sign(c.address).over)
        IN  passes =>
              /\ after.timeouts = {TimeoutInfo(c.height, r, RoundStepPropose)}
              /\ after.step = RoundStepPropose
              /\ after.round = r
              /\ GetByAddress(c.address) = -1 => after.sent = {}
              /\ GetByAddress(c.address) # -1 =>
                    IF IsProposer(c, c.address) THEN proposals = {own}
                    ELSE proposals = {}

\* C29: a replica comes to step PrevoteWait of a round only when the
\* prevotes of that round hold +2/3 of any votes and no +2/3 majority for
\* one hash.
PrevoteWaitOnlyWithoutMajority ==
    [][\A i \in correct :
          /\ core'[i].step = RoundStepPrevoteWait
          /\ \/ core[i].step # RoundStepPrevoteWait
             \/ core[i].round # core'[i].round
          => /\ HasTwoThirdAny(core'[i].prevotes, core'[i].round)
             /\ ~HasMajority(core'[i].prevotes, core'[i].round)]_vars

\* C30: an enterPrecommit of the current round, called at step Prevote or
\* PrevoteWait with +2/3 of any prevotes, broadcasts one precommit of the
\* round and leaves the replica at step Precommit: for the block of the
\* +2/3 majority, locking it, when it is the received proposal; for nil and
\* without a lock when the majority is nil or no received proposal; for nil
\* and the lock as it was when there is no majority.
PrecommitSelector ==
    \A i \in correct :
        LET c == Quiet(core[i])
            r == c.round
            after == enterPrecommit(c, c.height, r)
            hasMaj == HasMajority(c.prevotes, r)
            hMaj == MajorityHash(c.prevotes, r)
            locks == /\ hasMaj
                     /\ hMaj # emptyBlockHash
                     /\ c.proposalReceived # NilProposal
                     /\ BlockHash(c.proposalReceived.block) = hMaj
            precommit(h) == {Message(msgPrecommit, c.height, r, h, -1,
                                     c.address, Sign(c.address).signer,
                                     Sign(c.address).over)}
        IN  /\ RoundStepPrevote <= c.step
            /\ c.step < RoundStepPrecommit
            /\ HasTwoThirdAny(c.prevotes, r)
            => /\ after.step = RoundStepPrecommit
               /\ after.round = r
               /\ IF locks
                  THEN /\ after.sent = precommit(hMaj)
                       /\ after.lockedRound = r
                       /\ after.lockedBlock = c.proposalReceived.block
                       /\ after.validRound = r
                       /\ after.validBlock = c.proposalReceived.block
                  ELSE IF hasMaj
                  THEN /\ after.sent = precommit(emptyBlockHash)
                       /\ after.lockedRound = -1
                       /\ after.lockedBlock = NilBlock
                  ELSE /\ after.sent = precommit(emptyBlockHash)
                       /\ after.lockedRound = c.lockedRound
                       /\ after.lockedBlock = c.lockedBlock

\* C31: an armed timer that fires and is not stale takes the replica to
\* step Prevote of its round when its step is Propose, to step Precommit of
\* its round when its step is PrevoteWait, and to the round after its round
\* with the next proposer when its step is PrecommitWait.
TimeoutDispatch ==
    \A i \in correct : \A ti \in core[i].timeouts :
        LET c == core[i]
            after == handleTimeout([c EXCEPT !.timeouts = @ \ {ti}], ti)
        IN  ~IsStale(c, ti) =>
              /\ ti.step = RoundStepPropose
                    => after.round = ti.round /\ after.step = RoundStepPrevote
              /\ ti.step = RoundStepPrevoteWait
                    => /\ after.round = ti.round
                       /\ after.step = RoundStepPrecommit
              /\ ti.step = RoundStepPrecommitWait
                    => /\ after.round = ti.round + 1
                       /\ after.proposer # c.proposer

StaleCheckAtomic ==
    [][\A i \in correct : \A ti \in core[i].checked :
          core'[i].checked = {} /\ IsStale(core[i], ti)
          => core'[i] = [core[i] EXCEPT !.checked = {}]]_vars

\* the prevotes of round r among the messages replica c has broadcast
OwnPrevotes(c, r) ==
    {m \in c.sent : m.code = msgPrevote /\ m.height = c.height /\ m.round = r}

\* the prevotes among the messages replica c has broadcast
Prevoted(c) == {m \in c.sent : m.code = msgPrevote}

\* a handler that takes replica c to round state after, its broadcasts
\* alone in sent, broadcasts at most one prevote of a height and round, and
\* none of a round of its height that c has broadcast a prevote of
PrevotesOnce(c, after) ==
    /\ \A m1, m2 \in Prevoted(after) :
          m1.height = m2.height /\ m1.round = m2.round => m1 = m2
    /\ \A m \in Prevoted(after) :
          m.height = c.height => OwnPrevotes(c, m.round) = {}

\* C34: a correct replica broadcasts at most one prevote for a height and
\* round: whatever message or timeout the loop handles next, the handler
\* broadcasts at most one prevote of a round, and none of a round the
\* replica has broadcast a prevote of.
OnePrevotePerRound ==
    \A i \in correct :
        LET c == core[i]
            fresh == [c EXCEPT !.sent = {}]
        IN  /\ \A r \in 0..(MaxRound + 1) :
                  Cardinality(OwnPrevotes(c, r)) <= 1
            /\ \A m \in EnvVotes \cup EnvBadVotes \cup EnvProposals \cup Net :
                  PrevotesOnce(c, handleMsg(fresh, m, cgo).c)
            /\ \A ti \in c.timeouts :
                  PrevotesOnce(c, handleTimeout(
                                     [fresh EXCEPT !.timeouts = @ \ {ti}], ti))
            /\ PrevotesOnce(c, startRoundZero(fresh))
            /\ PrevotesOnce(c, SetBlock(fresh, OwnBlock))

\* a replica that has broadcast a prevote of round 0 and a prevote of round
\* 1 stands at step Prevote of round 1 with a timer armed
OnePrevotePerRoundWitness ==
    \E i \in correct :
        /\ OwnPrevotes(core[i], 0) # {}
        /\ OwnPrevotes(core[i], 1) # {}
        /\ core[i].round = 1
        /\ core[i].step = RoundStepPrevote
        /\ core[i].timeouts # {}

\* C35: every timer the state machine arms carries a step that the switch
\* of handleTimeout has a case for, so that no timer that fires takes the
\* default branch and panics.
NoInvalidTimeoutStep ==
    \A i \in correct : \A ti \in core[i].timeouts : ~InvalidTimeoutStep(ti)

\* a replica has armed a PrevoteWait timer or a PrecommitWait timer in round
\* 1 that is not stale, and the switch of handleTimeout has a case for it
NoInvalidTimeoutStepWitness ==
    \E i \in correct : \E ti \in core[i].timeouts :
        /\ ti.step \in {RoundStepPrevoteWait, RoundStepPrecommitWait}
        /\ ti.round = 1
        /\ ~IsStale(core[i], ti)
        /\ ~InvalidTimeoutStep(ti)

====
